---- MODULE Spec2Model ----
(***************************************************************************)
(* Many-to-many capacitated matching of fairpyx/utils/graph_utils.py:      *)
(* the facade many_to_many_matching, the min-cost-max-flow engine and the  *)
(* node-cloning engine.  One behaviour is one problem instance on which    *)
(* the entry points are called; the external solvers nx.max_flow_min_cost  *)
(* and nx.max_weight_matching are modelled by their contract: any optimal  *)
(* solution may be returned.                                               *)
(***************************************************************************)
EXTENDS Integers, Sequences, FiniteSets, TLC

\* ---------------------------------------------------------------- bounds
MaxCap == 2             \* every capacity is drawn from 0..MaxCap
MaxTotalCap == 3        \* the agents' capacities sum to at most this, and so do the items'
MaxVal == 1             \* values are drawn from -1..MaxVal

\* ------------------------------------------------------------ identifiers
\* Identifiers are strings.  An identifier of IntIds stands for a Python int
\* (isinstance(id, str) is false for it); every other one is a Python str.
IntIds == {"0", "1", "2", "3"}
AgentIds == {"a", "b"}
ItemIds == {"x", "y"}
\* Ascending order of the identifiers, as Python compares them in list.sort().
IdOrder == <<"0", "1", "2", "3", "a", "b", "c", "w", "x", "y", "z">>

VARIABLES
    items,              \* list of item identifiers, in the caller's order
    agents,             \* list of agent identifiers, in the caller's order
    item_capacities,    \* item -> capacity
    agent_capacities,   \* agent -> capacity
    valuations,         \* agent -> item -> value
    agent_entitlement,  \* agent -> multiplier
    call,               \* "none", or the entry point that was called
    allow_negative_value_assignments,  \* the flag the flow engine ran with
    outcome,            \* "none", "returned" or "raised"
    map_agent_name_to_bundle,          \* the returned assignment
    solver_flow,        \* the flow nx.max_flow_min_cost handed to the flow engine
    second_items,       \* key order of item_capacities in the second facade call
    second_outcome,     \* "none", "returned" or "raised": the second facade call
    second_bundle,      \* the assignment the second facade call returned
    approvals,          \* gpseq: per voter, the list of approved project indices
    costs,              \* gpseq: the list of project costs
    budget,             \* gpseq: the budget
    instance,           \* gpseq: the Instance built from them, <<>> before
    gpseq_outcome,      \* "none", "returned" or "raised"
    gpseq_result,       \* what gpseq returned: [type, value]
    raw_matrix,         \* AgentBundleValueMatrix: agent1 -> agent2 -> value of agent2's bundle
    maximum_values,     \* AgentBundleValueMatrix: agent -> the largest value it could get
    normalized_matrix,  \* AgentBundleValueMatrix: raw_matrix as a percentage of maximum_values
    matrix,             \* AgentBundleValueMatrix: the selected matrix
    envy_matrix,        \* AgentBundleValueMatrix: None, or agent1 -> agent2 -> envy
    envy_vector,        \* AgentBundleValueMatrix: None, or agent -> its largest envy
    reported            \* the last method called on the object and what it returned

inputs == <<items, agents, item_capacities, agent_capacities, valuations, agent_entitlement>>
first_call == <<call, allow_negative_value_assignments, outcome, map_agent_name_to_bundle,
                solver_flow>>
second_call == <<second_items, second_outcome, second_bundle>>
matching_vars == <<inputs, first_call, second_call>>
gpseq_inputs == <<approvals, costs, budget>>
gpseq_vars == <<approvals, costs, budget, instance, gpseq_outcome, gpseq_result>>
satisfaction_tables == <<raw_matrix, maximum_values, normalized_matrix>>
satisfaction_vars == <<raw_matrix, maximum_values, normalized_matrix, matrix, envy_matrix,
                       envy_vector, reported>>
vars == <<matching_vars, gpseq_vars, satisfaction_vars>>

\* ---------------------------------------------------------------- helpers
Range(f) == {f[k] : k \in DOMAIN f}

RECURSIVE SumF(_, _)
\* sum of f[e] over e in S
SumF(f, S) == IF S = {} THEN 0
              ELSE LET e == CHOOSE e \in S : TRUE IN f[e] + SumF(f, S \ {e})

RECURSIVE SumSeq(_)
SumSeq(s) == IF s = <<>> THEN 0 ELSE Head(s) + SumSeq(Tail(s))

Max(S) == CHOOSE v \in S : \A w \in S : w <= v
Min(S) == CHOOSE v \in S : \A w \in S : v <= w

Rank(id) == CHOOSE k \in DOMAIN IdOrder : IdOrder[k] = id

RECURSIVE Insert(_, _)
Insert(x, s) == IF s = <<>> THEN <<x>>
                ELSE IF Rank(x) <= Rank(Head(s)) THEN <<x>> \o s
                ELSE <<Head(s)>> \o Insert(x, Tail(s))

\* a list left in the order it was built in
Unsorted(s) == s

RECURSIVE Sort(_)
\* list.sort(): ascending, duplicates kept
Sort(s) == IF s = <<>> THEN <<>> ELSE Insert(Head(s), Sort(Tail(s)))

agent_str(agent) == IF agent \in IntIds THEN "A" \o agent ELSE agent
\* an item named with the prefix of the agents
item_str_with_agent_prefix(item) == IF item \in IntIds THEN "A" \o item ELSE item
item_str(item) == IF item \in IntIds THEN "I" \o item ELSE item

\* ------------------------------------------------------------ flow engine
\* line 63: the capacity of the edge s -> agent
SourceCapacityPlusOne(agent_capacity, agent) == agent_capacity[agent] + 1
SourceCapacity(agent_capacity, agent) == agent_capacity[agent]

\* line 71: the capacity of the edge item -> t
SinkCapacity(item_capacity, item) == item_capacity[item]

\* line 66: the pair gets no edge
SkipNothing(value, allow_negative) == FALSE
SkipEdge(value, allow_negative) == value < 0 /\ ~allow_negative

\* lines 68-69: the cost of the edge agent -> item
EdgeWeightNotNegated(value, entitlement) == value * entitlement
EdgeWeight(value, entitlement) == 0 - (value * entitlement)

\* Step a: the flow network, as a map (u, v) -> [capacity, weight].
FlowGraph(its, item_capacity, ags, agent_capacity, agent_item_value, entitlement, allow_negative) ==
    LET SourceEdges == {<<"s", agent_str(agent)>> : agent \in Range(ags)}
        Pairs == {p \in Range(ags) \X Range(its) :
                    ~SkipEdge(agent_item_value[p[1]][p[2]], allow_negative)}
        PairEdges == {<<agent_str(p[1]), item_str(p[2])>> : p \in Pairs}
        SinkEdges == {<<item_str(item), "t">> : item \in Range(its)}
        AgentOf(n) == CHOOSE agent \in Range(ags) : agent_str(agent) = n
        ItemOf(n) == CHOOSE item \in Range(its) : item_str(item) = n
    IN  [e \in SourceEdges \cup PairEdges \cup SinkEdges |->
            IF e \in SourceEdges
              THEN [capacity |-> SourceCapacity(agent_capacity, AgentOf(e[2])), weight |-> 0]
            ELSE IF e \in SinkEdges
              THEN [capacity |-> SinkCapacity(item_capacity, ItemOf(e[1])), weight |-> 0]
            ELSE [capacity |-> 1,
                  weight |-> EdgeWeight(agent_item_value[AgentOf(e[1])][ItemOf(e[2])],
                                        entitlement[AgentOf(e[1])])]]

RECURSIVE ChoiceFunctions(_)
\* the functions that pick one element of T[n] for every n
ChoiceFunctions(T) ==
    IF DOMAIN T = {} THEN {<<>>}
    ELSE LET n == CHOOSE n \in DOMAIN T : TRUE
             rest == ChoiceFunctions([m \in DOMAIN T \ {n} |-> T[m]])
         IN  {[m \in DOMAIN T |-> IF m = n THEN k ELSE r[m]] : k \in T[n], r \in rest}

\* The integral s-t flows of the network: within the capacity of every
\* edge, and what enters a node other than s and t leaves it.  The edges
\* that touch neither s nor t have capacity 1, so such a flow is a set S of
\* saturated edges together with, for every node, a flow into t (and the
\* flow out of s that balances the node).
Flows(graph) ==
    LET E == DOMAIN graph
        Mid == {e \in E : e[1] # "s" /\ e[2] # "t"}
        Inner == ({e[1] : e \in E} \cup {e[2] : e \in E}) \ {"s", "t"}
        SourceCap(n) == IF <<"s", n>> \in E THEN graph[<<"s", n>>].capacity ELSE 0
        SinkCap(n) == IF <<n, "t">> \in E THEN graph[<<n, "t">>].capacity ELSE 0
        Net(S, n) == Cardinality({m \in S : m[1] = n}) - Cardinality({m \in S : m[2] = n})
        SinkChoices(S) == [n \in Inner |->
                            {k \in 0..SinkCap(n) : Net(S, n) + k \in 0..SourceCap(n)}]
        AsFlow(S, c) == [e \in E |->
                            IF e \in Mid THEN (IF e \in S THEN 1 ELSE 0)
                            ELSE IF e[1] = "s" THEN Net(S, e[2]) + c[e[2]]
                            ELSE c[e[1]]]
    IN  UNION {{AsFlow(S, c) : c \in ChoiceFunctions(SinkChoices(S))} : S \in SUBSET Mid}

FlowValue(graph, f) == SumF(f, {e \in DOMAIN graph : e[1] = "s"})
FlowCost(graph, f) == SumF([e \in DOMAIN graph |-> f[e] * graph[e].weight], DOMAIN graph)

\* a solver that minimises the cost alone, whatever the value of the flow
min_cost_flow(graph) ==
    LET All == Flows(graph)
        min_cost == Min({FlowCost(graph, f) : f \in All})
    IN  {f \in All : FlowCost(graph, f) = min_cost}

\* nx.max_flow_min_cost: the flows of maximum value and, among these, of
\* minimum cost.  Which one of them the solver returns is not specified.
max_flow_min_cost(graph) ==
    LET All == Flows(graph)
        max_value == Max({FlowValue(graph, f) : f \in All})
        Maxi == {f \in All : FlowValue(graph, f) = max_value}
        min_cost == Min({FlowCost(graph, f) : f \in Maxi})
    IN  {f \in Maxi : FlowCost(graph, f) = min_cost}

\* Step c: the bundle of every agent, in the order of items, then sorted.
FlowToBundles(flow, its, ags) ==
    [agent \in Range(ags) |->
        Sort(SelectSeq(its, LAMBDA item :
                LET e == <<agent_str(agent), item_str(item)>>
                IN  (IF e \in DOMAIN flow THEN flow[e] ELSE 0) = 1))]

\* lines 80-85: an agent -> item flow other than 0 or 1 raises (the message
\* of the ValueError names the undefined itemflow, so a NameError is what
\* leaves the function); nothing is returned then.
DecodeFlowClamping(flow, its, ags) == [raised |-> FALSE, bundle |-> FlowToBundles(flow, its, ags)]
DecodeFlow(flow, its, ags) ==
    LET agent_item_flow(agent, item) ==
            LET e == <<agent_str(agent), item_str(item)>>
            IN  IF e \in DOMAIN flow THEN flow[e] ELSE 0
    IN  IF \E agent \in Range(ags) : \E item \in Range(its) :
                agent_item_flow(agent, item) \notin {0, 1}
          THEN [raised |-> TRUE, bundle |-> <<>>]
          ELSE [raised |-> FALSE, bundle |-> FlowToBundles(flow, its, ags)]

\* nx.max_flow_min_cost refuses a network with an edge of negative capacity
\* (NetworkXUnfeasible).
SolverRejects(graph) == \E e \in DOMAIN graph : graph[e].capacity < 0

\* The outcomes of many_to_many_matching_using_network_flow: the solver's
\* flow and the decoded assignment, or the solver's exception.
many_to_many_matching_using_network_flow(its, item_capacity, ags, agent_capacity, agent_item_value, entitlement, allow_negative) ==
    LET graph == FlowGraph(its, item_capacity, ags, agent_capacity,
                           agent_item_value, entitlement, allow_negative)
    IN  IF SolverRejects(graph)
          THEN {[raised |-> TRUE, flow |-> <<>>, bundle |-> <<>>]}
          ELSE {LET decoded == DecodeFlow(flow, its, ags)
                IN  [raised |-> decoded.raised, flow |-> flow, bundle |-> decoded.bundle] :
                    flow \in max_flow_min_cost(graph)}

\* The facade delegates to the flow engine with the default flag.
many_to_many_matching(item_keys, item_caps, agent_keys, agent_caps, vals, entitlement) ==
    many_to_many_matching_using_network_flow(item_keys, item_caps, agent_keys, agent_caps,
                                             vals, entitlement, FALSE)

\* A solver whose answer is corrupted: an optimal flow with the value 2 on
\* one agent -> item edge.
CorruptedFlows(graph) ==
    {[f EXCEPT ![e] = 2] : f \in max_flow_min_cost(graph),
                           e \in {e \in DOMAIN graph : e[1] # "s" /\ e[2] # "t"}}

\* --------------------------------------------------------- cloning engine
\* line 103: the number of units of an item in the graph
NumItemUnitsPlusOne(item_capacity, item) == item_capacity[item] + 1
NumItemUnits(item_capacity, item) == item_capacity[item]

\* line 99: the number of clones of an agent in the graph
NumAgentClones(agent_capacity, agent) == agent_capacity[agent]

\* A node of the bipartite graph is <<id>> (the bare identifier) or
\* <<id, k>> (the Python tuple (id, k): clone k of an agent, unit k of an item).
\* Step a: the graph, as a map (agent node, item node) -> weight.
CloneGraph(its, item_capacity, ags, agent_capacity, agent_item_value, entitlement) ==
    LET EdgesOf(agent, item) ==
            LET num_of_agent_clones == NumAgentClones(agent_capacity, agent)
                num_of_item_units == NumItemUnits(item_capacity, item)
            IN  IF num_of_item_units = 1 /\ num_of_agent_clones = 1
                  THEN {<<(<<agent>>), (<<item>>)>>}
                ELSE IF num_of_item_units # 1 /\ num_of_agent_clones = 1
                  THEN {<<(<<agent>>), (<<item, unit>>)>> : unit \in 0..(num_of_item_units - 1)}
                ELSE IF num_of_item_units = 1 /\ num_of_agent_clones # 1
                  THEN {<<(<<agent, clone>>), (<<item>>)>> : clone \in 0..(num_of_agent_clones - 1)}
                ELSE {<<(<<agent, p[1]>>), (<<item, p[2]>>)>> :
                        p \in (0..(num_of_agent_clones - 1)) \X (0..(num_of_item_units - 1))}
        E == UNION {EdgesOf(p[1], p[2]) : p \in Range(ags) \X Range(its)}
    IN  [e \in E |-> agent_item_value[e[1][1]][e[2][1]] * entitlement[e[1][1]]]

RECURSIVE MatchingsFrom(_, _, _)
\* the matchings of graph that use only the left nodes of U and no node of used
MatchingsFrom(graph, U, used) ==
    IF U = {} THEN {{}}
    ELSE LET u == CHOOSE u \in U : TRUE
             Free == {e \in DOMAIN graph : e[1] = u /\ e[2] \notin used}
         IN  MatchingsFrom(graph, U \ {u}, used)
             \cup UNION {{M \cup {e} : M \in MatchingsFrom(graph, U \ {u}, used \cup {e[2]})} :
                            e \in Free}

\* the sets of edges no two of which share a node
Matchings(graph) == MatchingsFrom(graph, {e[1] : e \in DOMAIN graph}, {})

MatchingWeight(graph, M) == SumF(graph, M)

\* the matchings of maximum weight among those of maximum cardinality, as
\* maxcardinality=True would ask for
max_cardinality_matching(graph) ==
    LET All == Matchings(graph)
        max_size == Max({Cardinality(M) : M \in All})
        Largest == {M \in All : Cardinality(M) = max_size}
        max_weight == Max({MatchingWeight(graph, M) : M \in Largest})
    IN  {M \in Largest : MatchingWeight(graph, M) = max_weight}

\* nx.max_weight_matching(graph, maxcardinality=False): the matchings of
\* maximum total weight.  Which one the solver returns is not specified.
max_weight_matching(graph) ==
    LET All == Matchings(graph)
        max_weight == Max({MatchingWeight(graph, M) : M \in All})
    IN  {M \in All : MatchingWeight(graph, M) = max_weight}

\* _remove_unit_index: of the tuple (id, k) the identifier id (element 0 in
\* Python); a bare identifier, here the one-element <<id>>, is itself
remove_unit_index(node) == IF Len(node) = 2 THEN node[1] ELSE Head(node)

\* Lines 130-136 for one matched edge, which the solver may hand over in
\* either orientation: the (agent, item) pair, or "ValueError".
EdgeToPair(edge, ags) ==
    LET e == <<remove_unit_index(edge[1]), remove_unit_index(edge[2])>>
    IN  IF e[1] \in Range(ags) THEN <<e[1], e[2]>>
        ELSE IF e[2] \in Range(ags) THEN <<e[2], e[1]>>
        ELSE <<"ValueError", "ValueError">>

RECURSIVE PairSequences(_, _)
\* The sequences of (agent, item) pairs the loop over the matching (a set,
\* iterated in any order, every edge in either orientation) can produce.
PairSequences(M, ags) ==
    IF M = {} THEN {<<>>}
    ELSE UNION {UNION {{<<p>> \o rest : rest \in PairSequences(M \ {e}, ags)} :
                        p \in {EdgeToPair(e, ags), EdgeToPair(<<e[2], e[1]>>, ags)}} :
                 e \in M}

RECURSIVE AppendAll(_, _)
\* map_agent_name_to_bundle[agent].append(item) for every pair, on a
\* defaultdict(list): only agents that got an item have an entry
AppendAll(bundle, pairs) ==
    IF pairs = <<>> THEN bundle
    ELSE LET agent == Head(pairs)[1]
             item == Head(pairs)[2]
             old == IF agent \in DOMAIN bundle THEN bundle[agent] ELSE <<>>
         IN  AppendAll([a \in DOMAIN bundle \cup {agent} |->
                            IF a = agent THEN Append(old, item) ELSE bundle[a]],
                       Tail(pairs))

MatchingToBundles(pairs) ==
    IF \E k \in DOMAIN pairs : pairs[k][1] = "ValueError"
      THEN [raised |-> TRUE, bundle |-> <<>>]
      ELSE [raised |-> FALSE, bundle |-> AppendAll(<<>>, pairs)]

\* The outcomes of many_to_many_matching_using_node_cloning.
many_to_many_matching_using_node_cloning(its, item_capacity, ags, agent_capacity, agent_item_value, entitlement) ==
    LET graph == CloneGraph(its, item_capacity, ags, agent_capacity,
                            agent_item_value, entitlement)
    IN  {MatchingToBundles(pairs) :
            pairs \in UNION {PairSequences(M, ags) : M \in max_weight_matching(graph)}}

\* ------------------------------------------------------------------ gpseq
MaxVoters == 2          \* approvals holds at most this many lists
MaxProjects == 2        \* costs holds at most this many entries; indices are 0..MaxProjects
MaxBudget == 2          \* budget is drawn from -1..MaxBudget

\* fairpyx.Instance as a plain container of the four tables
Instance(vals, agent_caps, item_caps, item_weights) ==
    [valuations |-> vals, agent_capacities |-> agent_caps,
     item_capacities |-> item_caps, item_weights |-> item_weights]

\* Python lists are indexed from 0: element i of the list is lst[i + 1]
create_instance_from_approvals_and_costs(approval_lists, cost_list, the_budget) ==
    LET num_agents == Len(approval_lists)
        num_items == Len(cost_list)
    IN  IF num_agents = 0 \/ num_items = 0
          THEN Instance([i \in {0} |-> [j \in {0} |-> 0]], [i \in {0} |-> 1],
                        [j \in {0} |-> 1], [j \in {0} |-> 1])
          ELSE Instance([i \in 0..(num_agents - 1) |->
                            [j \in 0..(num_items - 1) |->
                                IF j \in Range(approval_lists[i + 1]) THEN 1 ELSE 0]],
                        [i \in 0..(num_agents - 1) |-> the_budget],
                        [j \in 0..(num_items - 1) |-> 1000],
                        [j \in 0..(num_items - 1) |-> cost_list[j + 1]])

\* line 66: the body of gpseq is pass, the call returns None
gpseq(alloc) == [type |-> "NoneType", value |-> <<>>]

\* ----------------------------------------------------------- satisfaction
MaxBundleValue == 2     \* the entries of raw_matrix are drawn from 0..MaxBundleValue
\* The values agent_maximum_value returns here.  Both divide 100, so that
\* raw / maximum * 100 is a whole number; with 100 the percentage is the raw value.
MaximumValues == {50, 100}
None == <<>>

\* lines 69-75: raw_matrix[agent1][agent2] / maximum_values[agent1] * 100
NormalizedMatrix(raw, maximum) ==
    [agent1 \in DOMAIN raw |->
        [agent2 \in DOMAIN raw[agent1] |-> (raw[agent1][agent2] * 100) \div maximum[agent1]]]

\* a switch of matrix that leaves the envy tables as they are
use_values_keeping_envy(target, current, envy, vector) ==
    IF current # target
      THEN [matrix |-> target, envy_matrix |-> envy, envy_vector |-> vector]
      ELSE [matrix |-> current, envy_matrix |-> envy, envy_vector |-> vector]

\* lines 86-88 and 94-96: if the selected matrix differs from the target, as
\* a value, select the target and drop the envy tables
use_values(target, current, envy, vector) ==
    IF current # target
      THEN [matrix |-> target, envy_matrix |-> None, envy_vector |-> None]
      ELSE [matrix |-> current, envy_matrix |-> envy, envy_vector |-> vector]

\* lines 107-113
EnvyMatrixOf(m) ==
    [agent1 \in DOMAIN m |-> [agent2 \in DOMAIN m |-> m[agent1][agent2] - m[agent1][agent1]]]
\* lines 114-117
EnvyVectorOf(envy) == [agent1 \in DOMAIN envy |-> Max(Range(envy[agent1]))]

\* lines 105-117: the envy tables after make_envy_matrix
make_envy_matrix(m, envy, vector) ==
    IF envy # None
      THEN [envy_matrix |-> envy, envy_vector |-> vector]
      ELSE [envy_matrix |-> EnvyMatrixOf(m), envy_vector |-> EnvyVectorOf(EnvyMatrixOf(m))]

\* line 121
max_envy(vector) == Max(Range(vector))
\* line 125, the quotient kept as numerator and denominator
mean_envy(vector) ==
    [numerator |-> SumF([agent \in DOMAIN vector |-> Max({vector[agent], 0})], DOMAIN vector),
     denominator |-> Cardinality(DOMAIN vector)]

\* no AgentBundleValueMatrix has been constructed
SatisfactionIdle ==
    /\ raw_matrix = <<>>
    /\ maximum_values = <<>>
    /\ normalized_matrix = <<>>
    /\ matrix = <<>>
    /\ envy_matrix = None
    /\ envy_vector = None
    /\ reported = [method |-> "none", numerator |-> 0, denominator |-> 1]

\* ------------------------------------------------------------- instances
Perms(S) == {s \in [1..Cardinality(S) -> S] : Range(s) = S}
Entitlements == {[a \in AgentIds |-> 1], [a \in AgentIds |-> IF a = "a" THEN 2 ELSE 1]}

\* The instances of the doctests of many_to_many_matching (lines 20-33).
Valuations1 == [a |-> [x |-> 11, y |-> 22], b |-> [x |-> 33, y |-> 55]]
Valuations2 == [a |-> [x |-> 11, y |-> 22], b |-> [x |-> 33, y |-> 0 - 1]]
Fixture1 == [item_capacities |-> [x |-> 2, y |-> 2], agent_capacities |-> [a |-> 1, b |-> 1],
             valuations |-> Valuations1]
Fixture2 == [item_capacities |-> [x |-> 3, y |-> 1], agent_capacities |-> [a |-> 1, b |-> 1],
             valuations |-> Valuations1]
Fixture3 == [item_capacities |-> [x |-> 2, y |-> 2], agent_capacities |-> [a |-> 1, b |-> 2],
             valuations |-> Valuations1]
Fixture4 == [item_capacities |-> [x |-> 2, y |-> 2], agent_capacities |-> [a |-> 1, b |-> 3],
             valuations |-> Valuations1]
Fixture5 == [item_capacities |-> [x |-> 2, y |-> 2], agent_capacities |-> [a |-> 1, b |-> 3],
             valuations |-> Valuations2]
Fixtures == {Fixture1, Fixture2, Fixture3, Fixture4, Fixture5}

IsFixture(f) ==
    /\ item_capacities = f.item_capacities
    /\ agent_capacities = f.agent_capacities
    /\ valuations = f.valuations
    /\ agent_entitlement = [a \in AgentIds |-> 1]

\* The doctest with integer identifiers (lines 34-35): agents 0, 1 and items
\* 0..3, valuations a list of lists.
IntFixture ==
    [items |-> <<"0", "1", "2", "3">>, agents |-> <<"0", "1">>,
     item_capacities |-> [i \in {"0", "1", "2", "3"} |-> 1],
     agent_capacities |-> [a \in {"0", "1"} |-> 2],
     valuations |-> ("0" :> ("0" :> 5 @@ "1" :> 4 @@ "2" :> 3 @@ "3" :> 2)
                     @@ "1" :> ("0" :> 2 @@ "1" :> 3 @@ "2" :> 4 @@ "3" :> 5))]

\* An agent and an item that share the identifier 0.  Their capacities
\* differ, so that the nodes of the cloned graph, 0 and (0, k), are distinct
\* and the graph has no self-loop.
CollisionInstances ==
    {[items |-> <<"0">>, agents |-> <<"0">>, item_capacities |-> [i \in {"0"} |-> ci],
      agent_capacities |-> [a \in {"0"} |-> ca], valuations |-> [a \in {"0"} |-> [i \in {"0"} |-> v]]] :
        ci \in {2}, ca \in {1}, v \in {0, 1}}
    \cup {[items |-> <<"0">>, agents |-> <<"0">>, item_capacities |-> [i \in {"0"} |-> ci],
      agent_capacities |-> [a \in {"0"} |-> ca], valuations |-> [a \in {"0"} |-> [i \in {"0"} |-> v]]] :
        ci \in {1}, ca \in {2}, v \in {0, 1}}

\* Instances with a negative capacity.
NegativeCapacityInstances ==
    {[items |-> <<"x", "y">>, agents |-> <<"a", "b">>, item_capacities |-> ci,
      agent_capacities |-> ca, valuations |-> Valuations1] :
        ci \in [ItemIds -> {0 - 1, 1}], ca \in [AgentIds -> {0 - 1, 1, 2}]}
    \ {[items |-> <<"x", "y">>, agents |-> <<"a", "b">>, item_capacities |-> ci,
      agent_capacities |-> ca, valuations |-> Valuations1] :
        ci \in [ItemIds -> {1}], ca \in [AgentIds -> {1, 2}]}

\* Instances whose value table names an agent c or an item z that has no
\* capacity.
ExtraEntryInstances ==
    {[items |-> <<"x", "y">>, agents |-> <<"a", "b">>, item_capacities |-> [x |-> 1, y |-> 1],
      agent_capacities |-> [a |-> 1, b |-> 1], valuations |-> v] :
        v \in {[a |-> [x |-> 11, y |-> 22], b |-> [x |-> 33, y |-> 55], c |-> [x |-> 99, y |-> 99]],
               [a |-> [x |-> 11, y |-> 22, z |-> 99], b |-> [x |-> 33, y |-> 55, z |-> 99]],
               [a |-> [x |-> 11, y |-> 22], b |-> [x |-> 33, y |-> 55], c |-> [z |-> 99]]}}

SpecialInstances ==
    {IntFixture} \cup CollisionInstances \cup NegativeCapacityInstances \cup ExtraEntryInstances

\* nothing of gpseq has run
GpseqIdle ==
    /\ approvals = <<>>
    /\ costs = <<>>
    /\ budget = 0
    /\ instance = <<>>
    /\ gpseq_outcome = "none"
    /\ gpseq_result = [type |-> "NoneType", value |-> <<>>]

\* no entry point of graph_utils has been called
MatchingIdle ==
    /\ call = "none"
    /\ allow_negative_value_assignments = FALSE
    /\ outcome = "none"
    /\ map_agent_name_to_bundle = <<>>
    /\ solver_flow = <<>>
    /\ second_items = <<>>
    /\ second_outcome = "none"
    /\ second_bundle = <<>>

Init ==
    /\ \/ /\ agents = <<"a", "b">>
          \* generated instances: the keys of item_capacities are not in sorted order
          /\ items = <<"y", "x">>
          /\ item_capacities \in {c \in [ItemIds -> 0..MaxCap] :
                                    SumF(c, ItemIds) <= MaxTotalCap}
          /\ agent_capacities \in {c \in [AgentIds -> 0..MaxCap] :
                                    SumF(c, AgentIds) <= MaxTotalCap}
          /\ valuations \in [AgentIds -> [ItemIds -> (0 - 1)..MaxVal]]
          /\ agent_entitlement \in Entitlements
       \/ /\ agents = <<"a", "b">>
          /\ items = <<"x", "y">>
          /\ \E f \in Fixtures : IsFixture(f)
       \/ \E f \in SpecialInstances :
          /\ agents = f.agents
          /\ items = f.items
          /\ item_capacities = f.item_capacities
          /\ agent_capacities = f.agent_capacities
          /\ valuations = f.valuations
          /\ agent_entitlement = [a \in Range(f.agents) |-> 1]
    /\ MatchingIdle
    /\ GpseqIdle
    /\ SatisfactionIdle

\* ---------------------------------------------------------------- actions
\* a call of the facade
CallFacade ==
    /\ call = "none"
    /\ \E out \in many_to_many_matching(items, item_capacities, agents,
                        agent_capacities, valuations, agent_entitlement) :
        /\ map_agent_name_to_bundle' = out.bundle
        /\ solver_flow' = out.flow
        /\ outcome' = IF out.raised THEN "raised" ELSE "returned"
    /\ call' = "many_to_many_matching"
    /\ allow_negative_value_assignments' = FALSE
    /\ UNCHANGED <<inputs, second_call, gpseq_vars, satisfaction_vars>>

\* A second call of the facade with equal arguments: the same dicts, their
\* keys in any order.  The solver is deterministic: for the graph of the
\* first call it hands back the flow of the first call.
CallFacadeAgain ==
    /\ call = "many_to_many_matching" /\ outcome = "returned"
    /\ second_outcome = "none"
    /\ \E item_keys \in Perms(Range(items)) :
        LET graph1 == FlowGraph(items, item_capacities, agents, agent_capacities,
                                valuations, agent_entitlement, FALSE)
            graph2 == FlowGraph(item_keys, item_capacities, agents, agent_capacities,
                                valuations, agent_entitlement, FALSE)
        IN  \E flow \in (IF graph2 = graph1 THEN {solver_flow} ELSE max_flow_min_cost(graph2)) :
                LET decoded == DecodeFlow(flow, item_keys, agents)
                IN  /\ second_items' = item_keys
                    /\ second_bundle' = decoded.bundle
                    /\ second_outcome' = IF decoded.raised THEN "raised" ELSE "returned"
    /\ UNCHANGED <<inputs, first_call, gpseq_vars, satisfaction_vars>>

\* a direct call of the flow engine
CallNetworkFlow ==
    /\ call = "none"
    /\ \E allow \in BOOLEAN :
        /\ \E out \in many_to_many_matching_using_network_flow(
                items, item_capacities, agents, agent_capacities, valuations,
                agent_entitlement, allow) :
            /\ map_agent_name_to_bundle' = out.bundle
            /\ solver_flow' = out.flow
            /\ outcome' = IF out.raised THEN "raised" ELSE "returned"
        /\ allow_negative_value_assignments' = allow
    /\ call' = "network_flow"
    /\ UNCHANGED <<inputs, second_call, gpseq_vars, satisfaction_vars>>

\* a direct call of the flow engine in which the solver's answer is corrupted
CallNetworkFlowCorruptedSolver ==
    /\ call = "none"
    /\ LET graph == FlowGraph(items, item_capacities, agents, agent_capacities,
                              valuations, agent_entitlement, FALSE)
       IN  /\ ~SolverRejects(graph)
           /\ \E flow \in CorruptedFlows(graph) :
                LET decoded == DecodeFlow(flow, items, agents)
                IN  /\ solver_flow' = flow
                    /\ map_agent_name_to_bundle' = decoded.bundle
                    /\ outcome' = IF decoded.raised THEN "raised" ELSE "returned"
    /\ allow_negative_value_assignments' = FALSE
    /\ call' = "network_flow"
    /\ UNCHANGED <<inputs, second_call, gpseq_vars, satisfaction_vars>>

\* a direct call of the cloning engine
CallNodeCloning ==
    /\ call = "none"
    /\ \E out \in many_to_many_matching_using_node_cloning(items, item_capacities,
                        agents, agent_capacities, valuations, agent_entitlement) :
        /\ map_agent_name_to_bundle' = out.bundle
        /\ outcome' = IF out.raised THEN "raised" ELSE "returned"
    /\ call' = "node_cloning"
    /\ UNCHANGED <<inputs, allow_negative_value_assignments, solver_flow, second_call,
                   gpseq_vars, satisfaction_vars>>

Next ==
    \/ CallFacade
    \/ CallFacadeAgain
    \/ CallNetworkFlow
    \/ CallNetworkFlowCorruptedSolver
    \/ CallNodeCloning

Spec == Init /\ [][Next]_vars

\* ------------------------------------------------- the gpseq test scenario
ApprovalLists == {<<>>} \cup {<<p>> : p \in 0..MaxProjects}
                    \cup {<<p, q>> : p \in 0..MaxProjects, q \in 0..MaxProjects}

InitGpseq ==
    /\ agents = <<"a", "b">>
    /\ items = <<"x", "y">>
    /\ IsFixture(Fixture1)
    /\ MatchingIdle
    /\ approvals \in UNION {[1..n -> ApprovalLists] : n \in 0..MaxVoters}
    /\ costs \in UNION {[1..m -> 1..2] : m \in 0..MaxProjects}
    /\ budget \in (0 - 1)..MaxBudget
    /\ instance = <<>>
    /\ gpseq_outcome = "none"
    /\ gpseq_result = [type |-> "NoneType", value |-> <<>>]
    /\ SatisfactionIdle

\* instance = create_instance_from_approvals_and_costs(approvals, costs, budget)
CreateInstance ==
    /\ instance = <<>>
    /\ instance' = create_instance_from_approvals_and_costs(approvals, costs, budget)
    /\ UNCHANGED <<matching_vars, satisfaction_vars, gpseq_inputs, gpseq_outcome, gpseq_result>>

\* result = gpseq(instance)
CallGpseq ==
    /\ instance # <<>>
    /\ gpseq_outcome = "none"
    /\ gpseq_result' = gpseq(instance)
    /\ gpseq_outcome' = "returned"
    /\ UNCHANGED <<matching_vars, satisfaction_vars, gpseq_inputs, instance>>

NextGpseq == CreateInstance \/ CallGpseq

SpecGpseq == InitGpseq /\ [][NextGpseq]_vars

\* ------------------------------------- the methods of AgentBundleValueMatrix
\* The object after __init__ (lines 48-80), for two agents.
InitSatisfaction ==
    /\ agents = <<"a", "b">>
    /\ items = <<"x", "y">>
    /\ IsFixture(Fixture1)
    /\ MatchingIdle
    /\ GpseqIdle
    /\ raw_matrix \in [AgentIds -> [AgentIds -> 0..MaxBundleValue]]
    /\ maximum_values \in [AgentIds -> MaximumValues]
    /\ normalized_matrix = NormalizedMatrix(raw_matrix, maximum_values)
    /\ \E normalized \in BOOLEAN :
          matrix = IF normalized
                     THEN use_values(normalized_matrix, raw_matrix, None, None).matrix
                     ELSE raw_matrix
    /\ envy_matrix = None
    /\ envy_vector = None
    /\ reported = [method |-> "__init__", numerator |-> 0, denominator |-> 1]

CallUseRawValues ==
    /\ LET after == use_values(raw_matrix, matrix, envy_matrix, envy_vector)
       IN  /\ matrix' = after.matrix
           /\ envy_matrix' = after.envy_matrix
           /\ envy_vector' = after.envy_vector
    /\ reported' = [method |-> "use_raw_values", numerator |-> 0, denominator |-> 1]
    /\ UNCHANGED <<matching_vars, gpseq_vars, satisfaction_tables>>

CallUseNormalizedValues ==
    /\ LET after == use_values(normalized_matrix, matrix, envy_matrix, envy_vector)
       IN  /\ matrix' = after.matrix
           /\ envy_matrix' = after.envy_matrix
           /\ envy_vector' = after.envy_vector
    /\ reported' = [method |-> "use_normalized_values", numerator |-> 0, denominator |-> 1]
    /\ UNCHANGED <<matching_vars, gpseq_vars, satisfaction_tables>>

CallMakeEnvyMatrix ==
    /\ LET after == make_envy_matrix(matrix, envy_matrix, envy_vector)
       IN  /\ envy_matrix' = after.envy_matrix
           /\ envy_vector' = after.envy_vector
    /\ reported' = [method |-> "make_envy_matrix", numerator |-> 0, denominator |-> 1]
    /\ UNCHANGED <<matching_vars, gpseq_vars, satisfaction_tables, matrix>>

CallMaxEnvy ==
    /\ LET after == make_envy_matrix(matrix, envy_matrix, envy_vector)
       IN  /\ envy_matrix' = after.envy_matrix
           /\ envy_vector' = after.envy_vector
           /\ reported' = [method |-> "max_envy", numerator |-> max_envy(after.envy_vector),
                           denominator |-> 1]
    /\ UNCHANGED <<matching_vars, gpseq_vars, satisfaction_tables, matrix>>

CallMeanEnvy ==
    /\ LET after == make_envy_matrix(matrix, envy_matrix, envy_vector)
       IN  /\ envy_matrix' = after.envy_matrix
           /\ envy_vector' = after.envy_vector
           /\ reported' = [method |-> "mean_envy",
                           numerator |-> mean_envy(after.envy_vector).numerator,
                           denominator |-> mean_envy(after.envy_vector).denominator]
    /\ UNCHANGED <<matching_vars, gpseq_vars, satisfaction_tables, matrix>>

NextSatisfaction ==
    \/ CallUseRawValues
    \/ CallUseNormalizedValues
    \/ CallMakeEnvyMatrix
    \/ CallMaxEnvy
    \/ CallMeanEnvy

SpecSatisfaction == InitSatisfaction /\ [][NextSatisfaction]_vars

\* ------------------------------------------------- vocabulary of the claims
FlowReturned == call \in {"many_to_many_matching", "network_flow"} /\ outcome = "returned"
CloningReturned == call = "node_cloning" /\ outcome = "returned"

\* total entitlement-weighted value of an assignment
TotalValue(bundle) ==
    SumF([agent \in DOMAIN bundle |->
            SumSeq([k \in DOMAIN bundle[agent] |->
                      valuations[agent][bundle[agent][k]] * agent_entitlement[agent]])],
         DOMAIN bundle)

\* the sets of (agent, item) pairs, each at most once, within both capacities
FeasibleAssignments ==
    {S \in SUBSET (Range(agents) \X Range(items)) :
        /\ \A agent \in Range(agents) :
              Cardinality({p \in S : p[1] = agent}) <= agent_capacities[agent]
        /\ \A item \in Range(items) :
              Cardinality({p \in S : p[2] = item}) <= item_capacities[item]}

\* the optimum found by exhaustive search over FeasibleAssignments
BruteForceOptimum ==
    Max({SumF([p \in S |-> valuations[p[1]][p[2]] * agent_entitlement[p[1]]], S) :
            S \in FeasibleAssignments})

\* number of times item occurs in all lists of the assignment
Occurrences(bundle, item) ==
    SumF([agent \in DOMAIN bundle |->
            Cardinality({k \in DOMAIN bundle[agent] : bundle[agent][k] = item})],
         DOMAIN bundle)

NoNegativeValue ==
    \A agent \in Range(agents) : \A item \in Range(items) : valuations[agent][item] >= 0
UnitEntitlement == \A agent \in Range(agents) : agent_entitlement[agent] = 1
NonNegativeCapacities ==
    /\ \A agent \in Range(agents) : agent_capacities[agent] >= 0
    /\ \A item \in Range(items) : item_capacities[item] >= 0
\* the precondition of the cloning engine: no identifier is agent and item
IdsDisjoint == Range(agents) \cap Range(items) = {}
\* the inputs the capacity claims are about
ValidFor(engine_call) == NonNegativeCapacities /\ (engine_call = "node_cloning" => IdsDisjoint)

\* ----------------------------------------------------------------- claims
\* C1: with all values >= 0 and entitlement 1, the total value of the flow
\* engine's assignment is the maximum over all capacity-respecting
\* assignments, those with fewer units than the maximum included.
C1_FlowOptimal ==
    (call = "network_flow" /\ outcome = "returned" /\ NoNegativeValue /\ UnitEntitlement)
        => TotalValue(map_agent_name_to_bundle) = BruteForceOptimum

C4_NoDuplicateInBundle ==
    outcome = "returned" =>
        \A agent \in DOMAIN map_agent_name_to_bundle : \A item \in Range(items) :
            Cardinality({k \in DOMAIN map_agent_name_to_bundle[agent] :
                            map_agent_name_to_bundle[agent][k] = item}) <= 1

\* C5: the total weighted value of the cloning engine's assignment is the
\* optimum found by brute force over the capacity-respecting assignments in
\* which each (agent, item) pair contributes at most one unit.
C5_CloningOptimal ==
    (CloningReturned /\ NonNegativeCapacities)
        => TotalValue(map_agent_name_to_bundle) = BruteForceOptimum

\* C6: when no value is negative, the total weighted value of the flow
\* engine's assignment equals that of the cloning engine's assignment.
C6_EnginesAgree ==
    (CloningReturned /\ NoNegativeValue) =>
        \A flow_outcome \in many_to_many_matching_using_network_flow(items, item_capacities,
                agents, agent_capacities, valuations, agent_entitlement, FALSE) :
            ~flow_outcome.raised =>
                TotalValue(flow_outcome.bundle) = TotalValue(map_agent_name_to_bundle)

\* C7: with allow_negative_value_assignments false, the flow engine returns
\* no (agent, item) pair of negative value.
C7_NoNegativePairByDefault ==
    (FlowReturned /\ ~allow_negative_value_assignments) =>
        \A agent \in DOMAIN map_agent_name_to_bundle :
            \A k \in DOMAIN map_agent_name_to_bundle[agent] :
                valuations[agent][map_agent_name_to_bundle[agent][k]] >= 0

\* the flow engine left a pair of negative value out although the agent and
\* the item both have capacity to spare
C7_Witness ==
    /\ FlowReturned /\ ~allow_negative_value_assignments
    /\ \E agent \in Range(agents) : \E item \in Range(items) :
          /\ valuations[agent][item] < 0
          /\ Len(map_agent_name_to_bundle[agent]) < agent_capacities[agent]
          /\ Occurrences(map_agent_name_to_bundle, item) < item_capacities[item]

\* C8: the facade's results on the four fixtures.
C8_FixtureResults ==
    (call = "many_to_many_matching" /\ outcome = "returned") =>
        /\ IsFixture(Fixture1) => map_agent_name_to_bundle = [a |-> <<"y">>, b |-> <<"y">>]
        /\ IsFixture(Fixture2) => map_agent_name_to_bundle = [a |-> <<"x">>, b |-> <<"y">>]
        /\ IsFixture(Fixture3) => map_agent_name_to_bundle = [a |-> <<"y">>, b |-> <<"x", "y">>]
        /\ IsFixture(Fixture5) => map_agent_name_to_bundle = [a |-> <<"y">>, b |-> <<"x">>]

\* the facade has returned on the fixture with the negative value
C8_Witness ==
    /\ call = "many_to_many_matching" /\ outcome = "returned"
    /\ IsFixture(Fixture5)
    /\ map_agent_name_to_bundle = [a |-> <<"y">>, b |-> <<"x">>]

\* C9: the returned mapping has an entry for every input agent and for
\* nothing else, whichever entry point returned it.
C9_EntryForEveryAgent ==
    outcome = "returned" => DOMAIN map_agent_name_to_bundle = Range(agents)

\* C10: every list of the returned assignment is in ascending order of item
\* identifier, whichever engine returned it.
C10_BundlesSorted ==
    outcome = "returned" =>
        \A agent \in DOMAIN map_agent_name_to_bundle :
            \A k \in 1..(Len(map_agent_name_to_bundle[agent]) - 1) :
                Rank(map_agent_name_to_bundle[agent][k])
                    <= Rank(map_agent_name_to_bundle[agent][k + 1])

C12_NegativeCapacityRejected ==
    (call # "none" /\ ~NonNegativeCapacities) => outcome = "raised"

\* the value table names an agent or an item that has no capacity
ExtraEntries ==
    \/ ~(DOMAIN valuations \subseteq Range(agents))
    \/ \E agent \in DOMAIN valuations : ~(DOMAIN valuations[agent] \subseteq Range(items))

\* C13: when the value table names an agent without an agent capacity or an
\* item without an item capacity, the facade ends with an error.
C13_UnknownEntryRejected ==
    (call = "many_to_many_matching" /\ ExtraEntries) => outcome = "raised"

\* C14: when an identifier is both an agent and an item, the cloning engine
\* ends with an error.
C14_CollisionRejected ==
    (call = "node_cloning" /\ ~IdsDisjoint) => outcome = "raised"

\* the solver's flow on some agent -> item edge is neither 0 nor 1
NonBinaryFlow ==
    \E agent \in Range(agents) : \E item \in Range(items) :
        /\ <<agent_str(agent), item_str(item)>> \in DOMAIN solver_flow
        /\ solver_flow[<<agent_str(agent), item_str(item)>>] \notin {0, 1}

\* C15: when the solver's flow on an agent -> item edge is neither 0 nor 1,
\* the flow engine ends with an error and returns no assignment.
C15_NonBinaryFlowRaises ==
    (call = "network_flow" /\ NonBinaryFlow) =>
        /\ outcome = "raised"
        /\ map_agent_name_to_bundle = <<>>

\* the solver put 2 on one edge and 1 on another, and the engine raised
C15_Witness ==
    /\ call = "network_flow" /\ NonBinaryFlow
    /\ \E e \in DOMAIN solver_flow : e[1] # "s" /\ e[2] # "t" /\ solver_flow[e] = 1
    /\ outcome = "raised"

\* some approval list names a project for which costs has no entry
ApprovedWithoutCost ==
    \E v \in DOMAIN approvals : \E k \in DOMAIN approvals[v] : approvals[v][k] >= Len(costs)

\* C16: gpseq returns a list of project indices i with 0 <= i < m, m the
\* number of costs; for no approvals and no costs it returns the empty list.
C16_GpseqReturnsIndices ==
    gpseq_outcome = "returned" =>
        /\ gpseq_result.type = "list"
        /\ \A k \in DOMAIN gpseq_result.value :
              0 <= gpseq_result.value[k] /\ gpseq_result.value[k] < Len(costs)
        /\ (approvals = <<>> /\ costs = <<>>) => gpseq_result.value = <<>>

\* C17: with a negative budget, or with an approved project that has no
\* cost, building the instance and running gpseq ends with an exception.
C17_GpseqRejectsInvalidInput ==
    (gpseq_outcome # "none" /\ (budget < 0 \/ ApprovedWithoutCost))
        => gpseq_outcome = "raised"

\* agents and items are integers of overlapping ranges
IntegerIds ==
    /\ Range(agents) \subseteq IntIds
    /\ Range(items) \subseteq IntIds
    /\ ~IdsDisjoint

IsIntFixture ==
    /\ items = IntFixture.items
    /\ agents = IntFixture.agents
    /\ item_capacities = IntFixture.item_capacities
    /\ agent_capacities = IntFixture.agent_capacities
    /\ valuations = IntFixture.valuations

\* the instance of the state with agent 0, 1 renamed a, b and item 0..3
\* renamed w..z
AgentRenaming == ("0" :> "a" @@ "1" :> "b")
ItemRenaming == ("0" :> "w" @@ "1" :> "x" @@ "2" :> "y" @@ "3" :> "z")
RenamedBundle(bundle) ==
    [agent \in {AgentRenaming[a] : a \in DOMAIN bundle} |->
        LET old == CHOOSE a \in DOMAIN bundle : AgentRenaming[a] = agent
        IN  [k \in DOMAIN bundle[old] |-> ItemRenaming[bundle[old][k]]]]
RenamedOutcomes ==
    many_to_many_matching_using_network_flow(
        [k \in DOMAIN items |-> ItemRenaming[items[k]]],
        [i \in {ItemRenaming[j] : j \in Range(items)} |->
            item_capacities[CHOOSE j \in Range(items) : ItemRenaming[j] = i]],
        [k \in DOMAIN agents |-> AgentRenaming[agents[k]]],
        [a \in {AgentRenaming[b] : b \in Range(agents)} |->
            agent_capacities[CHOOSE b \in Range(agents) : AgentRenaming[b] = a]],
        [a \in {AgentRenaming[b] : b \in Range(agents)} |->
            [i \in {ItemRenaming[j] : j \in Range(items)} |->
                valuations[CHOOSE b \in Range(agents) : AgentRenaming[b] = a]
                          [CHOOSE j \in Range(items) : ItemRenaming[j] = i]]],
        [a \in {AgentRenaming[b] : b \in Range(agents)} |->
            agent_entitlement[CHOOSE b \in Range(agents) : AgentRenaming[b] = a]],
        allow_negative_value_assignments)

\* C18: on integer identifiers of overlapping ranges the flow engine returns
\* what it returns for the instance renamed to disjoint identifiers, and on
\* the doctest instance it returns {0: [0, 1], 1: [2, 3]}.
C18_OverlappingIntegerIds ==
    (FlowReturned /\ IntegerIds) =>
        /\ \E renamed \in RenamedOutcomes :
              ~renamed.raised /\ renamed.bundle = RenamedBundle(map_agent_name_to_bundle)
        /\ IsIntFixture =>
              map_agent_name_to_bundle = ("0" :> <<"0", "1">> @@ "1" :> <<"2", "3">>)

\* the flow engine has returned on the doctest instance, agent 0 holding item 0
C18_Witness ==
    /\ FlowReturned /\ IntegerIds /\ IsIntFixture
    /\ map_agent_name_to_bundle["0"] = <<"0", "1">>

\* the capacity-respecting sets of pairs the flow engine may use
PermittedAssignments ==
    {S \in FeasibleAssignments :
        \A p \in S : allow_negative_value_assignments \/ valuations[p[1]][p[2]] >= 0}
WeightedValue(S) == SumF([p \in S |-> valuations[p[1]][p[2]] * agent_entitlement[p[1]]], S)
Units(bundle) == SumF([agent \in DOMAIN bundle |-> Len(bundle[agent])], DOMAIN bundle)

SelectedEnvy(agent1, agent2) == matrix[agent1][agent2] - matrix[agent1][agent1]
SelectedMaxEnvy(agent1) == Max({SelectedEnvy(agent1, agent2) : agent2 \in DOMAIN matrix})

\* C21: whenever envy_matrix is not None, it and envy_vector are those of
\* the selected matrix, and what max_envy and mean_envy have just returned
\* is computed from the selected matrix.
C21_EnvyCacheConsistent ==
    /\ envy_matrix # None =>
          /\ envy_vector # None
          /\ \A agent1 \in DOMAIN matrix :
                /\ \A agent2 \in DOMAIN matrix :
                      envy_matrix[agent1][agent2] = SelectedEnvy(agent1, agent2)
                /\ envy_vector[agent1] = SelectedMaxEnvy(agent1)
    /\ reported.method = "max_envy" =>
          reported.numerator = Max({SelectedMaxEnvy(agent1) : agent1 \in DOMAIN matrix})
    /\ reported.method = "mean_envy" =>
          /\ reported.numerator =
                SumF([agent1 \in DOMAIN matrix |-> Max({SelectedMaxEnvy(agent1), 0})],
                     DOMAIN matrix)
          /\ reported.denominator = Cardinality(DOMAIN matrix)

\* max_envy has answered from the normalized matrix, whose largest envy is
\* not that of the raw matrix
C21_Witness ==
    /\ reported.method = "max_envy"
    /\ envy_matrix # None
    /\ matrix = normalized_matrix
    /\ matrix # raw_matrix
    /\ reported.numerator # max_envy(EnvyVectorOf(EnvyMatrixOf(raw_matrix)))

====
